---- MODULE Spec2Model ----
(***************************************************************************)
(* game-magic: an Express backend that proxies the RAWG game catalogue,    *)
(* caches upstream responses in an in-memory MemStorage and keeps user     *)
(* accounts.  The model covers MemStorage (the time-bounded cache and the  *)
(* user map) and the request handlers of routes.ts that use it.            *)
(*                                                                         *)
(* Strings that the code builds or compares piecewise (cache keys, path    *)
(* segments, query values) are sequences of one-character strings, so that *)
(* concatenation, escaping and equality are computed, not assumed.         *)
(***************************************************************************)
EXTENDS Integers, Sequences, FiniteSets, TLC

VARIABLES
    gameCache,   \* MemStorage.gameCache : key -> GameCache {id, key, data, timestamp}
    currentId,   \* MemStorage.currentId : next cache-entry id
    now,         \* Math.floor(Date.now() / 1000), the clock in unix seconds
    ret,         \* the last direct call on the cache store and what it returned
    lastPut,     \* history: key -> data, timestamp and time of the latest cacheGameData
    reqs,        \* the games requests: position, inputs, locals and response
    rawA, rawB,  \* key derivation: the query strings of two listing requests
    edits,       \* key derivation: how many parameters of rawB were changed
    keyA, keyB,  \* key derivation: the cache keys derived for rawA and rawB
    users,       \* MemStorage.users : id -> User
    userId,      \* MemStorage.userId : next user id
    session,     \* req.session.userId of each client session (0: none)
    regs,        \* the registration requests: position, inputs, locals and response
    favorites,   \* MemStorage.favorites : userId -> Favorite[]
    favoriteId,  \* MemStorage.favoriteId : next favorite id
    fret,        \* the last direct call on the favorites store and what it returned
    creates,     \* the direct createUser calls: position and arguments
    logins,      \* the login requests: position, inputs, locals and response
    gate         \* the last request to a session-gated route and its response

vars == <<gameCache, currentId, now, ret, lastPut, reqs, rawA, rawB, edits, keyA, keyB,
          users, userId, session, regs, favorites, favoriteId, fret, creates, logins, gate>>
userVars == <<users, userId, session, regs>>
keyVars == <<rawA, rawB, edits, keyA, keyB>>
storeVars == <<gameCache, currentId, now, ret, lastPut>>
favVars == <<favorites, favoriteId, fret, creates>>
authVars == <<logins, gate>>

----------------------------------------------------------------------------
(* Bounds of the model *)

\* number of cacheGameData calls the store-level harness may make
MaxPuts == 2
\* number of games requests the server receives
MaxReqs == 2
\* number of parameters a listing query string carries
MaxParams == 2
\* number of parameter changes that tell the second query string from the first
MaxEdits == 2
\* number of registration requests the server receives
MaxRegs == 2
\* number of direct createUser calls on the store
MaxCreates == 1
\* number of addFavorite calls
MaxFavs == 2
\* number of login requests the server receives
MaxLogins == 1
\* number of favorites the clients add through POST /api/favorites
MaxPosts == 1
\* number of registrations in the session runs
MaxSignups == 1

(* Program constants *)

\* routes.ts:227  now + 3600, "Cache for 1 hour" (listing)
TTL_LISTING == 3600
\* routes.ts:255  now + 86400, "Cache for 24 hours" (detail)
TTL_DETAIL == 86400
\* routes.ts:292  now + 1800, "Cache for 30 minutes" (search)
TTL_SEARCH == 1800

----------------------------------------------------------------------------
(* Values *)

\* opaque upstream payloads (response.data)
Payloads == {"A", "B"}

\* the instants the clock visits: the start, and for each lifetime the second
\* an entry written at the start expires and the second after it
TimePoints ==
    {0} \cup {t + e : t \in {TTL_SEARCH, TTL_LISTING, TTL_DETAIL}, e \in 0..1}

\* `undefined`, what a Map lookup or getGameCache yields for a missing key
Undefined == [undefined |-> TRUE]

\* Map.delete(k) and Map.set(k, v) on a map held as a function
MapDelete(m, k) == [x \in DOMAIN m \ {k} |-> m[x]]
MapSet(m, k, v) == [x \in DOMAIN m \cup {k} |-> IF x = k THEN v ELSE m[x]]
EmptyMap == [x \in {} |-> Undefined]

----------------------------------------------------------------------------
(* Strings, as sequences of characters *)

S_api == <<"a", "p", "i">>
S_games == <<"g", "a", "m", "e", "s">>
S_search == <<"s", "e", "a", "r", "c", "h">>
S_id == <<":", "i", "d">>
S_mario == <<"m", "a", "r", "i", "o">>
S_7 == <<"7">>
S_1 == <<"1">>

\* a query value that spells the end of one JSON member and the start of the next
S_tricky == <<"1", "\"", ",", "\"", "e", "s", "r", "b", "_", "r", "a", "t", "i", "n", "g", "\"", ":", "\"", "1">>

\* the names of the listing parameters, in the order the key object lists them
ParamNames == <<"search", "page", "page_size", "platforms", "genres", "ordering", "esrb_rating">>

\* the spelling of a property name
Spell(name) ==
    CASE name = "path" -> <<"p", "a", "t", "h">>
      [] name = "search" -> S_search
      [] name = "page" -> <<"p", "a", "g", "e">>
      [] name = "page_size" -> <<"p", "a", "g", "e", "_", "s", "i", "z", "e">>
      [] name = "platforms" -> <<"p", "l", "a", "t", "f", "o", "r", "m", "s">>
      [] name = "genres" -> <<"g", "e", "n", "r", "e", "s">>
      [] name = "ordering" -> <<"o", "r", "d", "e", "r", "i", "n", "g">>
      [] name = "esrb_rating" -> <<"e", "s", "r", "b", "_", "r", "a", "t", "i", "n", "g">>
      [] name = "query" -> <<"q", "u", "e", "r", "y">>

\* req.query: parameter name -> value; a parameter that is not set is not in
\* the domain (reading it yields undefined)
EmptyQuery == [x \in {} |-> <<>>]

----------------------------------------------------------------------------
(* MemStorage: the cache store (src/unnamed/part_000) *)

\* mutant of ExpiredOnRead: the expiry test with <= in place of <
ExpiredOnReadLe(item, t) == item.timestamp <= t

\* getGameCache, line 55: the entry is expired when its timestamp is before now
ExpiredOnRead(item, t) == item.timestamp < t

\* mutant of ExpiredOnSweep: the sweep's test with <= in place of <
ExpiredOnSweepLe(item, t) == item.timestamp <= t

\* mutant of ExpiredOnSweep: the comparison is turned around
ExpiredOnSweepReversed(item, t) == item.timestamp > t

\* clearExpiredCache, line 81
ExpiredOnSweep(item, t) == item.timestamp < t

\* mutant of GetGameCacheMap: an expired entry is reported absent but kept
GetGameCacheMapKeep(cache, key, t) == cache

\* getGameCache: the map after the call (lazy deletion of an expired entry)
GetGameCacheMap(cache, key, t) ==
    IF key \in DOMAIN cache /\ ExpiredOnRead(cache[key], t)
    THEN MapDelete(cache, key)
    ELSE cache

\* mutant of GetGameCacheResult: the entry is returned without the expiry check
GetGameCacheResultNoCheck(cache, key, t) ==
    IF key \notin DOMAIN cache THEN Undefined ELSE cache[key]

\* getGameCache: the value the call returns
GetGameCacheResult(cache, key, t) ==
    IF key \notin DOMAIN cache THEN Undefined
    ELSE IF ExpiredOnRead(cache[key], t) THEN Undefined
    ELSE cache[key]

\* cacheGameData: the GameCache item built from currentId++ and the arguments
CacheItem(id, key, data, timestamp) ==
    [id |-> id, key |-> key, data |-> data, timestamp |-> timestamp]

\* mutant of CacheGameDataMap: an entry that is already stored is kept
\* (put-if-absent)
CacheGameDataMapKeepFirst(cache, id, key, data, timestamp) ==
    IF key \in DOMAIN cache THEN cache
    ELSE MapSet(cache, key, CacheItem(id, key, data, timestamp))

\* cacheGameData: the map after this.gameCache.set(key, cacheItem)
CacheGameDataMap(cache, id, key, data, timestamp) ==
    MapSet(cache, key, CacheItem(id, key, data, timestamp))

\* clearExpiredCache: the map after the forEach over a snapshot of the entries
ClearExpiredCacheMap(cache, t) ==
    [k \in {x \in DOMAIN cache : ~ExpiredOnSweep(cache[x], t)} |-> cache[k]]

\* the record of a store call: what was called, on which key, when, and the result
Call(op, key, result) == [op |-> op, key |-> key, at |-> now, result |-> result]

----------------------------------------------------------------------------
(* Cache keys (src/routes.ts) *)

\* JSON.stringify's escaping of a string's characters: " and \ get a backslash
RECURSIVE JsonEscape(_)
JsonEscape(str) ==
    IF str = <<>> THEN <<>>
    ELSE LET c == Head(str) IN
         (IF c = "\"" \/ c = "\\" THEN <<"\\", c>> ELSE <<c>>) \o JsonEscape(Tail(str))

\* mutant of JsonString: the characters are quoted but not escaped
JsonStringRaw(str) == <<"\"">> \o str \o <<"\"">>

\* JSON.stringify of a string value
JsonString(str) == <<"\"">> \o JsonEscape(str) \o <<"\"">>

\* JSON.stringify of one property: "name":value
JsonMember(name, json) == JsonString(Spell(name)) \o <<":">> \o json

\* the members of an object joined by commas
RECURSIVE JsonJoin(_)
JsonJoin(members) ==
    IF members = <<>> THEN <<>>
    ELSE IF Len(members) = 1 THEN Head(members)
    ELSE Head(members) \o <<",">> \o JsonJoin(Tail(members))

\* what JSON.stringify has for undefined: no text at all
NoJson == <<>>

\* JSON.stringify of an object given as a sequence of <<name, json or NoJson>>;
\* a property whose value is undefined is left out
JsonObject(props) ==
    LET kept == SelectSeq(props, LAMBDA pr : pr[2] # NoJson)
    IN  <<"{">> \o JsonJoin([i \in 1..Len(kept) |-> JsonMember(kept[i][1], kept[i][2])]) \o <<"}">>

\* a query parameter as the key object holds it: its string, or undefined
JsonParam(query, name) ==
    IF name \in DOMAIN query THEN JsonString(query[name]) ELSE NoJson

\* lines 193, 198: `page = 1` in the destructuring, the number 1 when unset
JsonPage(query) ==
    IF "page" \in DOMAIN query THEN JsonString(query["page"]) ELSE <<"1">>

\* lines 193, 198: `page_size = 20`, the number 20 when unset
JsonPageSize(query) ==
    IF "page_size" \in DOMAIN query THEN JsonString(query["page_size"]) ELSE <<"2", "0">>

\* GET /api/games, lines 197-200: the cache key of a listing request
ListingKey(query) ==
    JsonObject(<< <<"path", JsonString(<<"/", "g", "a", "m", "e", "s">>)>>,
                  <<"search", JsonParam(query, "search")>>,
                  <<"page", JsonPage(query)>>,
                  <<"page_size", JsonPageSize(query)>>,
                  <<"platforms", JsonParam(query, "platforms")>>,
                  <<"genres", JsonParam(query, "genres")>>,
                  <<"ordering", JsonParam(query, "ordering")>>,
                  <<"esrb_rating", JsonParam(query, "esrb_rating")>> >>)

\* GET /api/games/:id, line 240: `/games/${id}`
DetailKey(id) == <<"/", "g", "a", "m", "e", "s", "/">> \o id

\* GET /api/games/search, line 273: `/search/${query}`
SearchKey(q) == <<"/", "s", "e", "a", "r", "c", "h", "/">> \o q

----------------------------------------------------------------------------
(* Routing (src/routes.ts): app.get registers the routes in source order and
   a request is served by the first registered route its path matches *)

\* the GET routes under /api/games, in the order registerRoutes registers them
Routes ==
    << [pattern |-> <<S_api, S_games>>,           handler |-> "listing"],
       [pattern |-> <<S_api, S_games, S_id>>,     handler |-> "detail"],
       [pattern |-> <<S_api, S_games, S_search>>, handler |-> "search"] >>

\* a path matches a pattern segment by segment; a segment that starts with
\* a colon is a parameter and matches any segment
MatchRoute(pattern, path) ==
    /\ Len(pattern) = Len(path)
    /\ \A i \in 1..Len(pattern) : Head(pattern[i]) = ":" \/ pattern[i] = path[i]

\* the handler that serves a path: that of the first matching route
Dispatch(path) ==
    LET hits == {i \in 1..Len(Routes) : MatchRoute(Routes[i].pattern, path)}
    IN  IF hits = {} THEN "none"
        ELSE Routes[CHOOSE i \in hits : \A j \in hits : i <= j].handler

\* line 269: !query || typeof query !== 'string' (values here are strings or unset)
SearchRejects(query) ==
    "query" \notin DOMAIN query \/ query["query"] = <<>>

\* whether the handler answers 400 before it touches the cache
HandlerRejects(handler, query) == handler = "search" /\ SearchRejects(query)

\* the cache key the handler derives
HandlerKey(handler, path, query) ==
    CASE handler = "listing" -> ListingKey(query)
      [] handler = "detail" -> DetailKey(path[3])
      [] handler = "search" -> SearchKey(query["query"])

\* mutant of HandlerTTL: the listing and search lifetimes are swapped
HandlerTTLSwapped(handler) ==
    CASE handler = "listing" -> TTL_SEARCH
      [] handler = "detail" -> TTL_DETAIL
      [] handler = "search" -> TTL_LISTING

\* the lifetime the handler adds to now: lines 227, 255, 292
HandlerTTL(handler) ==
    CASE handler = "listing" -> TTL_LISTING
      [] handler = "detail" -> TTL_DETAIL
      [] handler = "search" -> TTL_SEARCH

\* the values a listing parameter takes in the key-derivation runs
ParamValues == {S_1, S_tricky}

\* the place of a parameter name in ParamNames
NameIndex(name) == CHOOSE i \in 1..Len(ParamNames) : ParamNames[i] = name

\* the query strings the first request of a key-derivation run is sent with:
\* up to MaxParams name=value pairs, no name twice, in the order of ParamNames
\* (the second request's query string takes every other order)
RawQueries ==
    LET pairs == {<<ParamNames[i], v>> : i \in 1..Len(ParamNames), v \in ParamValues}
    IN  {q \in UNION {[1..n -> pairs] : n \in 0..MaxParams} :
            \A i, j \in 1..Len(q) : i < j => NameIndex(q[i][1]) < NameIndex(q[j][1])}

\* the names a query string sets
NamesOf(raw) == {raw[i][1] : i \in 1..Len(raw)}

\* req.query: the object the framework parses from the query string
ParseQuery(raw) ==
    [name \in NamesOf(raw) |-> raw[CHOOSE i \in 1..Len(raw) : raw[i][1] = name][2]]

\* the games requests the model sends: path and req.query
RequestInputs ==
    { <<<<S_api, S_games>>, [x \in {"search", "page"} |-> IF x = "page" THEN S_1 ELSE S_mario]>>,
      <<<<S_api, S_games, S_7>>, EmptyQuery>>,
      <<<<S_api, S_games, S_search>>, EmptyQuery>>,
      <<<<S_api, S_games, S_search>>, [x \in {"query"} |-> S_mario]>> }

----------------------------------------------------------------------------
(* Cache keys of the store-level harness *)

StoreKeys == {<<"k", "1">>, <<"k", "2">>}

\* expiry arguments of the store-level harness: now + t with t >= 0
StoreTTLs == {0, TTL_LISTING}

----------------------------------------------------------------------------
(* State after construction: new MemStorage(), no request received *)

IdleReq == [pc |-> "idle"]

Reqs == 1..MaxReqs
Regs == 1..MaxRegs
Creates == 1..MaxCreates
Logins == 1..MaxLogins

\* the client sessions (express-session cookies)
Sessions == {"s1", "s2"}

\* what the clients register with
Emails == {"ann@x.io", "bob@x.io"}
Usernames == {"ann", "bob"}
Passwords == {"pw"}

\* email and username of the accounts created where the pair does not matter
Accounts == {<<"ann@x.io", "ann">>, <<"bob@x.io", "bob">>}

InitServer ==
    /\ gameCache = EmptyMap
    /\ currentId = 1
    /\ now = 0
    /\ ret = [op |-> "none"]
    /\ lastPut = EmptyMap
    /\ reqs = [r \in Reqs |-> IdleReq]
    /\ users = EmptyMap
    /\ userId = 1
    /\ session = [sid \in Sessions |-> 0]
    /\ regs = [g \in Regs |-> IdleReq]
    /\ favorites = EmptyMap
    /\ favoriteId = 1
    /\ fret = [op |-> "none"]
    /\ creates = [c \in Creates |-> IdleReq]
    /\ logins = [l \in Logins |-> IdleReq]
    /\ gate = [route |-> "none"]

Init ==
    /\ InitServer
    /\ rawA = <<>>
    /\ rawB = <<>>
    /\ edits = 0
    /\ keyA = <<>>
    /\ keyB = <<>>

----------------------------------------------------------------------------
(* Store-level operations, called directly (as a unit test would) *)

\* the history of writes, extended by a cacheGameData call made now
Written(key, data, timestamp) ==
    MapSet(lastPut, key, [data |-> data, timestamp |-> timestamp, at |-> now])

\* await storage.getGameCache(key)
getGameCache(key) ==
    /\ gameCache' = GetGameCacheMap(gameCache, key, now)
    /\ ret' = Call("get", key, GetGameCacheResult(gameCache, key, now))
    /\ UNCHANGED <<currentId, now, lastPut, reqs, keyVars, userVars, favVars, authVars>>

\* await storage.cacheGameData(key, data, timestamp)
cacheGameData(key, data, timestamp) ==
    /\ currentId <= MaxPuts
    /\ gameCache' = CacheGameDataMap(gameCache, currentId, key, data, timestamp)
    /\ currentId' = currentId + 1
    /\ ret' = Call("put", key, CacheItem(currentId, key, data, timestamp))
    /\ lastPut' = Written(key, data, timestamp)
    /\ UNCHANGED <<now, reqs, keyVars, userVars, favVars, authVars>>

\* await storage.clearExpiredCache()
clearExpiredCache ==
    /\ gameCache' = ClearExpiredCacheMap(gameCache, now)
    /\ ret' = Call("sweep", <<>>, Undefined)
    /\ UNCHANGED <<currentId, now, lastPut, reqs, keyVars, userVars, favVars, authVars>>

\* the wall clock advances (Date.now() is read anew by every call)
Tick ==
    /\ \E t \in TimePoints : t > now /\ now' = t
    /\ UNCHANGED <<gameCache, currentId, ret, lastPut, reqs, keyVars, userVars, favVars, authVars>>

NextStore ==
    \/ \E k \in StoreKeys : getGameCache(k)
    \/ \E k \in StoreKeys, v \in Payloads, t \in StoreTTLs : cacheGameData(k, v, now + t)
    \/ clearExpiredCache
    \/ Tick

SpecStore == Init /\ [][NextStore]_vars

----------------------------------------------------------------------------
(* The games request handlers (src/routes.ts).  A handler runs without
   interruption up to its first real suspension, the upstream call:
   storage.getGameCache resolves within the same turn of the event loop. *)

\* the entry stored under a key, or undefined
EntryAt(cache, key) == IF key \in DOMAIN cache THEN cache[key] ELSE Undefined

\* a request arrives: route lookup, key derivation, cache read; a hit is
\* answered at once, a miss issues axios.get and suspends.  While the request
\* is suspended it remembers the entry its key had when it arrived (pre) and
\* the id counter it saw (id0).
RequestArrive(r, path, query) ==
    /\ reqs[r].pc = "idle"
    /\ \A q \in Reqs : q < r => reqs[q].pc # "idle"
    /\ Dispatch(path) # "none"
    /\ LET handler == Dispatch(path)
           base == [pc |-> "done", path |-> path, query |-> query, handler |-> handler,
                    key |-> <<>>, fetched |-> FALSE, status |-> 400, body |-> "",
                    pre |-> Undefined, id0 |-> 0]
       IN  IF HandlerRejects(handler, query)
           THEN /\ reqs' = [reqs EXCEPT ![r] = base]
                /\ UNCHANGED gameCache
           ELSE LET key == HandlerKey(handler, path, query)
                    cachedData == GetGameCacheResult(gameCache, key, now)
                IN  /\ gameCache' = GetGameCacheMap(gameCache, key, now)
                    /\ reqs' = [reqs EXCEPT ![r] =
                          IF cachedData # Undefined
                          THEN [base EXCEPT !.key = key, !.status = 200,
                                            !.body = cachedData.data]
                          ELSE [base EXCEPT !.key = key, !.pc = "fetching",
                                            !.fetched = TRUE, !.status = 0,
                                            !.pre = EntryAt(gameCache, key),
                                            !.id0 = currentId]]
    /\ UNCHANGED <<currentId, now, ret, lastPut, keyVars, userVars, favVars, authVars>>

\* the upstream call returns: the response is cached with now + TTL and sent
UpstreamResponds(r, data) ==
    /\ reqs[r].pc = "fetching"
    /\ LET key == reqs[r].key
           timestamp == now + HandlerTTL(reqs[r].handler)
       IN  /\ gameCache' = CacheGameDataMap(gameCache, currentId, key, data, timestamp)
           /\ currentId' = currentId + 1
           /\ lastPut' = Written(key, data, timestamp)
    /\ reqs' = [reqs EXCEPT ![r].pc = "done", ![r].status = 200, ![r].body = data,
                            ![r].pre = Undefined, ![r].id0 = 0]
    /\ UNCHANGED <<now, ret, keyVars, userVars, favVars, authVars>>

\* mutant of UpstreamFails: the failure is cached under the key (negative caching)
UpstreamFailsCached(r) ==
    /\ reqs[r].pc = "fetching"
    /\ LET key == reqs[r].key
           timestamp == now + HandlerTTL(reqs[r].handler)
       IN  /\ gameCache' = CacheGameDataMap(gameCache, currentId, key, "error", timestamp)
           /\ currentId' = currentId + 1
           /\ lastPut' = Written(key, "error", timestamp)
    /\ reqs' = [reqs EXCEPT ![r].pc = "done", ![r].status = 500]
    /\ UNCHANGED <<now, ret, keyVars, userVars, favVars, authVars>>

\* the upstream call throws: the catch block answers 500
UpstreamFails(r) ==
    /\ reqs[r].pc = "fetching"
    /\ reqs' = [reqs EXCEPT ![r].pc = "done", ![r].status = 500]
    /\ UNCHANGED <<storeVars, keyVars, userVars, favVars, authVars>>

\* the setInterval callback of the constructor fires: this.clearExpiredCache()
SweepTimer ==
    /\ gameCache' = ClearExpiredCacheMap(gameCache, now)
    /\ UNCHANGED <<currentId, now, ret, lastPut, reqs, keyVars, userVars, favVars, authVars>>

Next ==
    \/ \E r \in Reqs, inp \in RequestInputs : RequestArrive(r, inp[1], inp[2])
    \/ \E r \in Reqs, data \in Payloads : UpstreamResponds(r, data)
    \/ \E r \in Reqs : UpstreamFails(r)
    \/ SweepTimer
    \/ Tick

Spec == Init /\ [][Next]_vars

----------------------------------------------------------------------------
(* The games handlers with the scheduling the runtime provides: the interval
   timer of the constructor keeps firing and the clock keeps advancing.  The
   clock of the model stops at Horizon, so entries are written only with an
   expiry before it. *)

\* the last instant the clock of the model visits
Horizon == TTL_DETAIL + 1

\* the games requests of the sweep runs: one listing and one detail request
SweepInputs ==
    { <<<<S_api, S_games>>, EmptyQuery>>,
      <<<<S_api, S_games, S_7>>, EmptyQuery>> }

\* the cache keys of the sweep runs
SweepKeys == {HandlerKey(Dispatch(inp[1]), inp[1], inp[2]) : inp \in SweepInputs}

\* the upstream call returns while the expiry it leads to is before Horizon
UpstreamRespondsInTime(r, data) ==
    /\ reqs[r].pc = "fetching"
    /\ now + HandlerTTL(reqs[r].handler) < Horizon
    /\ UpstreamResponds(r, data)

NextSweep ==
    \/ \E r \in Reqs, inp \in SweepInputs : RequestArrive(r, inp[1], inp[2])
    \/ \E r \in Reqs, data \in Payloads : UpstreamRespondsInTime(r, data)
    \/ \E r \in Reqs : UpstreamFails(r)
    \/ SweepTimer
    \/ Tick

SpecSweep ==
    Init /\ [][NextSweep]_vars /\ WF_vars(SweepTimer) /\ WF_vars(Tick)

----------------------------------------------------------------------------
(* Key derivation of the listing handler, applied to two query strings: the
   second starts as the first and is then reordered, or changed in one
   parameter at a time *)

InitKey ==
    /\ InitServer
    /\ rawA \in RawQueries
    /\ rawB = rawA
    /\ edits = 0
    /\ keyA = ListingKey(ParseQuery(rawA))
    /\ keyB = ListingKey(ParseQuery(rawA))

\* the second request is sent with query string raw: its key is derived
DeriveKeyB(raw) ==
    /\ rawB' = raw
    /\ keyB' = ListingKey(ParseQuery(raw))
    /\ UNCHANGED <<storeVars, reqs, rawA, keyA, userVars, favVars, authVars>>

\* two neighbouring parameters of the second query string change places
SwapParams(i) ==
    /\ edits = 0
    /\ i \in 1..(Len(rawB) - 1)
    /\ DeriveKeyB([rawB EXCEPT ![i] = rawB[i + 1], ![i + 1] = rawB[i]])
    /\ UNCHANGED edits

\* a parameter of the second query string is set: added, or given another value
SetParam(name, value) ==
    /\ edits < MaxEdits
    /\ edits > 0 \/ rawB = rawA
    /\ IF name \in NamesOf(rawB)
       THEN \E i \in 1..Len(rawB) :
               /\ rawB[i][1] = name
               /\ rawB[i][2] # value
               /\ DeriveKeyB([rawB EXCEPT ![i] = <<name, value>>])
       ELSE /\ Len(rawB) < MaxParams
            /\ DeriveKeyB(Append(rawB, <<name, value>>))
    /\ edits' = edits + 1

\* a parameter of the second query string is unset
UnsetParam(name) ==
    /\ edits < MaxEdits
    /\ edits > 0 \/ rawB = rawA
    /\ name \in NamesOf(rawB)
    /\ DeriveKeyB(SelectSeq(rawB, LAMBDA pr : pr[1] # name))
    /\ edits' = edits + 1

NextKey ==
    \/ \E i \in 1..MaxParams : SwapParams(i)
    \/ \E i \in 1..Len(ParamNames), v \in ParamValues : SetParam(ParamNames[i], v)
    \/ \E i \in 1..Len(ParamNames) : UnsetParam(ParamNames[i])

SpecKey == InitKey /\ [][NextKey]_vars

----------------------------------------------------------------------------
(* MemStorage: the user store (src/unnamed/part_000) *)

\* bcrypt.hash(password, 10): a value made from the password, never the password
Hash(password) == <<"$2b$10$", password>>

\* getUserByEmail: the first user with that email, or undefined
GetUserByEmail(us, email) ==
    LET hits == {id \in DOMAIN us : us[id].email = email}
    IN  IF hits = {} THEN Undefined
        ELSE us[CHOOSE id \in hits : \A other \in hits : id <= other]

\* getUserByUsername: the first user with that username, or undefined
GetUserByUsername(us, username) ==
    LET hits == {id \in DOMAIN us : us[id].username = username}
    IN  IF hits = {} THEN Undefined
        ELSE us[CHOOSE id \in hits : \A other \in hits : id <= other]

\* createUser, lines 92-100: the User built once the hash is there
NewUser(id, email, username, hashedPassword) ==
    [id |-> id, email |-> email, username |-> username, password |-> hashedPassword,
     createdAt |-> now, profilePicture |-> "null", favoriteGames |-> <<>>]

----------------------------------------------------------------------------
(* POST /api/auth/register (src/routes.ts).  The handler is suspended at each
   await: the two existence lookups and, inside createUser, bcrypt.hash. *)

\* the request arrives: the body is validated and getUserByEmail is called
RegisterArrive(g, sid, email, username, password, valid) ==
    /\ regs[g].pc = "idle"
    /\ \A h \in Regs : h < g => regs[h].pc # "idle"
    /\ regs' = [regs EXCEPT ![g] =
          [pc |-> IF valid THEN "awaitEmail" ELSE "done",
           sid |-> sid, email |-> email, username |-> username, password |-> password,
           existing |-> IF valid THEN GetUserByEmail(users, email) ELSE Undefined,
           status |-> IF valid THEN 0 ELSE 400]]
    /\ UNCHANGED <<storeVars, reqs, keyVars, users, userId, session, favVars, authVars>>

\* mutant of RegisterEmailChecked: a taken email signs the requester in as the
\* user that holds it
RegisterEmailCheckedSignsIn(g) ==
    /\ regs[g].pc = "awaitEmail"
    /\ regs' = [regs EXCEPT ![g] =
          IF regs[g].existing # Undefined
          THEN [regs[g] EXCEPT !.pc = "done", !.status = 400]
          ELSE [regs[g] EXCEPT !.pc = "awaitUsername",
                               !.existing = GetUserByUsername(users, regs[g].username)]]
    /\ session' = IF regs[g].existing # Undefined
                  THEN [session EXCEPT ![regs[g].sid] = regs[g].existing.id]
                  ELSE session
    /\ UNCHANGED <<storeVars, reqs, keyVars, users, userId, favVars, authVars>>

\* the email lookup has resolved: 400 if taken, else getUserByUsername is called
RegisterEmailChecked(g) ==
    /\ regs[g].pc = "awaitEmail"
    /\ regs' = [regs EXCEPT ![g] =
          IF regs[g].existing # Undefined
          THEN [regs[g] EXCEPT !.pc = "done", !.status = 400]
          ELSE [regs[g] EXCEPT !.pc = "awaitUsername",
                               !.existing = GetUserByUsername(users, regs[g].username)]]
    /\ UNCHANGED <<storeVars, reqs, keyVars, users, userId, session, favVars, authVars>>

\* the username lookup has resolved: 400 if taken, else createUser is called
\* and suspends in bcrypt.hash
RegisterUsernameChecked(g) ==
    /\ regs[g].pc = "awaitUsername"
    /\ regs' = [regs EXCEPT ![g] =
          IF regs[g].existing # Undefined
          THEN [regs[g] EXCEPT !.pc = "done", !.status = 400]
          ELSE [regs[g] EXCEPT !.pc = "hashing"]]
    /\ UNCHANGED <<storeVars, reqs, keyVars, users, userId, session, favVars, authVars>>

\* mutant of RegisterHashed: createUser reads the counter but does not advance it
RegisterHashedNoIncrement(g) ==
    /\ regs[g].pc = "hashing"
    /\ users' = MapSet(users, userId,
                       NewUser(userId, regs[g].email, regs[g].username,
                               Hash(regs[g].password)))
    /\ session' = [session EXCEPT ![regs[g].sid] = userId]
    /\ regs' = [regs EXCEPT ![g].pc = "done", ![g].status = 201]
    /\ UNCHANGED <<storeVars, reqs, keyVars, userId, favVars, authVars>>

\* the hash is there: createUser takes the id, stores the user; the handler
\* sets the session and answers 201
RegisterHashed(g) ==
    /\ regs[g].pc = "hashing"
    /\ users' = MapSet(users, userId,
                       NewUser(userId, regs[g].email, regs[g].username,
                               Hash(regs[g].password)))
    /\ userId' = userId + 1
    /\ session' = [session EXCEPT ![regs[g].sid] = userId]
    /\ regs' = [regs EXCEPT ![g].pc = "done", ![g].status = 201]
    /\ UNCHANGED <<storeVars, reqs, keyVars, favVars, authVars>>

NextReg ==
    \/ \E g \in Regs, sid \in Sessions, email \in Emails, username \in Usernames,
          password \in Passwords, valid \in BOOLEAN :
            RegisterArrive(g, sid, email, username, password, valid)
    \/ \E g \in Regs : RegisterEmailChecked(g)
    \/ \E g \in Regs : RegisterUsernameChecked(g)
    \/ \E g \in Regs : RegisterHashed(g)

SpecReg == Init /\ [][NextReg]_vars

----------------------------------------------------------------------------
(* MemStorage: the favorites store (src/unnamed/part_000) *)

\* the user ids and game ids the favorites calls are made with; a user id
\* may name a user that does not exist (yet)
FavUserIds == {1, 2}
GameIds == {10, 20}

\* addFavorite, lines 128-135: the Favorite built from favoriteId++ and the data
NewFavorite(id, uid, gid) ==
    [id |-> id, userId |-> uid, gameId |-> gid, gameName |-> "Name",
     gameImage |-> "null", addedAt |-> now]

\* getUserFavorites: this.favorites.get(userId) || []
GetUserFavorites(favs, uid) == IF uid \in DOMAIN favs THEN favs[uid] ELSE <<>>

\* addFavorite, lines 138-144: the list is created if missing and the record pushed
AddFavoriteList(favs, uid, fav) == MapSet(favs, uid, Append(GetUserFavorites(favs, uid), fav))

\* mutant of AddFavoriteUsers: the user's favoriteGames is not updated
AddFavoriteUsersNoMirror(us, uid, gid) == us

\* addFavorite, lines 147-154: gameId is pushed on the user's favoriteGames,
\* if the user exists
AddFavoriteUsers(us, uid, gid) ==
    IF uid \in DOMAIN us
    THEN [us EXCEPT ![uid].favoriteGames = Append(@, gid)]
    ELSE us

\* mutant of FilterFavorites: only the first record with that gameId is dropped
FilterFavoritesFirst(list, gid) ==
    LET hits == {i \in 1..Len(list) : list[i].gameId = gid}
    IN  IF hits = {} THEN list
        ELSE LET first == CHOOSE i \in hits : \A j \in hits : i <= j
             IN  SubSeq(list, 1, first - 1) \o SubSeq(list, first + 1, Len(list))

\* removeFavorite, line 164: userFavorites.filter(fav => fav.gameId !== gameId)
FilterFavorites(list, gid) == SelectSeq(list, LAMBDA fav : fav.gameId # gid)

\* mutant of RemoveFavoriteResult: the lengths are not compared, any stored
\* list counts as a removal
RemoveFavoriteResultAnyList(favs, uid, gid) == uid \in DOMAIN favs

\* removeFavorite, lines 160-168: whether the call gets past both early returns
RemoveFavoriteResult(favs, uid, gid) ==
    /\ uid \in DOMAIN favs
    /\ Len(FilterFavorites(favs[uid], gid)) # Len(favs[uid])

\* removeFavorite, line 170: the filtered list replaces the stored one
RemoveFavoriteList(favs, uid, gid) ==
    IF RemoveFavoriteResult(favs, uid, gid)
    THEN [favs EXCEPT ![uid] = FilterFavorites(favs[uid], gid)]
    ELSE favs

\* removeFavorite, lines 173-177: gameId is filtered out of the user's favoriteGames
RemoveFavoriteUsers(us, favs, uid, gid) ==
    IF RemoveFavoriteResult(favs, uid, gid) /\ uid \in DOMAIN us
    THEN [us EXCEPT ![uid].favoriteGames = SelectSeq(@, LAMBDA id : id # gid)]
    ELSE us

\* the record of a favorites call: what was called, with which arguments, and
\* the result
FavCall(op, uid, gid, result) == [op |-> op, userId |-> uid, gameId |-> gid, result |-> result]

----------------------------------------------------------------------------
(* Store-level operations on users and favorites, called directly *)

\* storage.createUser(userData) is called and suspends in bcrypt.hash
createUserCall(c, email, username, password) ==
    /\ creates[c].pc = "idle"
    /\ \A d \in Creates : d < c => creates[d].pc # "idle"
    /\ creates' = [creates EXCEPT ![c] =
          [pc |-> "hashing", email |-> email, username |-> username,
           password |-> password, id |-> 0]]
    /\ UNCHANGED <<storeVars, reqs, keyVars, userVars, favorites, favoriteId, fret, authVars>>

\* the hash is there: the user is built with id userId++ and stored
createUserHashed(c) ==
    /\ creates[c].pc = "hashing"
    /\ users' = MapSet(users, userId,
                       NewUser(userId, creates[c].email, creates[c].username,
                               Hash(creates[c].password)))
    /\ userId' = userId + 1
    /\ creates' = [creates EXCEPT ![c].pc = "done", ![c].id = userId]
    /\ UNCHANGED <<storeVars, reqs, keyVars, session, regs, favorites, favoriteId, fret,
                   authVars>>

\* await storage.addFavorite({userId, gameId, gameName, gameImage})
addFavorite(uid, gid) ==
    /\ favoriteId <= MaxFavs
    /\ LET newFavorite == NewFavorite(favoriteId, uid, gid)
       IN  /\ favorites' = AddFavoriteList(favorites, uid, newFavorite)
           /\ fret' = FavCall("add", uid, gid, newFavorite)
    /\ favoriteId' = favoriteId + 1
    /\ users' = AddFavoriteUsers(users, uid, gid)
    /\ UNCHANGED <<storeVars, reqs, keyVars, userId, session, regs, creates, authVars>>

\* await storage.removeFavorite(userId, gameId)
removeFavorite(uid, gid) ==
    /\ favorites' = RemoveFavoriteList(favorites, uid, gid)
    /\ users' = RemoveFavoriteUsers(users, favorites, uid, gid)
    /\ fret' = FavCall("remove", uid, gid, RemoveFavoriteResult(favorites, uid, gid))
    /\ UNCHANGED <<storeVars, reqs, keyVars, userId, session, regs, favoriteId, creates,
                   authVars>>

\* await storage.getUserFavorites(userId)
getUserFavorites(uid) ==
    /\ fret' = FavCall("list", uid, 0, GetUserFavorites(favorites, uid))
    /\ UNCHANGED <<storeVars, reqs, keyVars, userVars, favorites, favoriteId, creates,
                   authVars>>

NextFav ==
    \/ \E c \in Creates, account \in Accounts, password \in Passwords :
          createUserCall(c, account[1], account[2], password)
    \/ \E c \in Creates : createUserHashed(c)
    \/ \E uid \in FavUserIds, gid \in GameIds : addFavorite(uid, gid)
    \/ \E uid \in FavUserIds, gid \in GameIds : removeFavorite(uid, gid)
    \/ \E uid \in FavUserIds : getUserFavorites(uid)

SpecFav == Init /\ [][NextFav]_vars

----------------------------------------------------------------------------
(* Sessions, login, logout and the session-gated routes (src/routes.ts).
   A login is suspended at its two awaits; logout and the gated handlers run
   in one step: the store methods they await contain no suspension. *)

\* the passwords a login is attempted with
LoginPasswords == {"pw", "bad"}

\* bcrypt.compare(password, hashedPassword)
ValidatePassword(password, hashedPassword) == Hash(password) = hashedPassword

\* mutant of IsAuthenticated: the middleware lets every request through
IsAuthenticatedAlways(sess, sid) == TRUE

\* isAuthenticated, line 14: req.session && req.session.userId
IsAuthenticated(sess, sid) == sess[sid] # 0

\* the record of a request answered in one step: route, session, status
Answer(route, sid, status) == [route |-> route, sid |-> sid, status |-> status]

\* a login that has been answered: its session and the status sent
LoginDone(sid, status) == [pc |-> "done", sid |-> sid, status |-> status]

\* POST /api/auth/login arrives: getUserByEmail is called
LoginArrive(l, sid, email, password) ==
    /\ logins[l].pc = "idle"
    /\ \A m \in Logins : m < l => logins[m].pc # "idle"
    /\ logins' = [logins EXCEPT ![l] =
          [pc |-> "awaitUser", sid |-> sid, email |-> email, password |-> password,
           user |-> GetUserByEmail(users, email), status |-> 0]]
    /\ UNCHANGED <<storeVars, reqs, keyVars, userVars, favVars, gate>>

\* the lookup has resolved: 401 for an unknown email, else validatePassword
\* is called and suspends in bcrypt.compare
LoginUserFound(l) ==
    /\ logins[l].pc = "awaitUser"
    /\ logins' = [logins EXCEPT ![l] =
          IF logins[l].user = Undefined
          THEN LoginDone(logins[l].sid, 401)
          ELSE [logins[l] EXCEPT !.pc = "comparing"]]
    /\ UNCHANGED <<storeVars, reqs, keyVars, userVars, favVars, gate>>

\* the comparison has resolved: 401 for a wrong password, else the session
\* gets the user's id and the handler answers 200
LoginCompared(l) ==
    /\ logins[l].pc = "comparing"
    /\ LET isPasswordValid == ValidatePassword(logins[l].password, logins[l].user.password)
       IN  /\ logins' = [logins EXCEPT ![l] =
                    LoginDone(logins[l].sid, IF isPasswordValid THEN 200 ELSE 401)]
           /\ session' = IF isPasswordValid
                         THEN [session EXCEPT ![logins[l].sid] = logins[l].user.id]
                         ELSE session
    /\ UNCHANGED <<storeVars, reqs, keyVars, users, userId, regs, favVars, gate>>

\* GET /api/auth/logout: req.session.destroy, then 200
Logout(sid) ==
    /\ session' = [session EXCEPT ![sid] = 0]
    /\ gate' = Answer("logout", sid, 200)
    /\ UNCHANGED <<storeVars, reqs, keyVars, users, userId, regs, favVars, logins>>

\* GET /api/auth/user
GetAuthUser(sid) ==
    /\ gate' = Answer("user", sid,
                      IF ~IsAuthenticated(session, sid) THEN 401
                      ELSE IF session[sid] \notin DOMAIN users THEN 404
                      ELSE 200)
    /\ UNCHANGED <<storeVars, reqs, keyVars, userVars, favVars, logins>>

\* POST /api/favorites with body {gameId, gameName, gameImage}
PostFavorite(sid, gid) ==
    /\ IF ~IsAuthenticated(session, sid)
       THEN /\ gate' = Answer("addFavorite", sid, 401)
            /\ UNCHANGED <<users, favorites, favoriteId>>
       ELSE /\ favoriteId <= MaxPosts
            /\ favorites' = AddFavoriteList(favorites, session[sid],
                                            NewFavorite(favoriteId, session[sid], gid))
            /\ favoriteId' = favoriteId + 1
            /\ users' = AddFavoriteUsers(users, session[sid], gid)
            /\ gate' = Answer("addFavorite", sid, 201)
    /\ UNCHANGED <<storeVars, reqs, keyVars, userId, session, regs, fret, creates, logins>>

\* DELETE /api/favorites/:gameId
DeleteFavorite(sid, gid) ==
    /\ IF ~IsAuthenticated(session, sid)
       THEN /\ gate' = Answer("removeFavorite", sid, 401)
            /\ UNCHANGED <<users, favorites>>
       ELSE /\ favorites' = RemoveFavoriteList(favorites, session[sid], gid)
            /\ users' = RemoveFavoriteUsers(users, favorites, session[sid], gid)
            /\ gate' = Answer("removeFavorite", sid,
                              IF RemoveFavoriteResult(favorites, session[sid], gid)
                              THEN 200 ELSE 404)
    /\ UNCHANGED <<storeVars, reqs, keyVars, userId, session, regs, favoriteId, fret,
                   creates, logins>>

\* GET /api/favorites
GetFavorites(sid) ==
    /\ gate' = Answer("favorites", sid, IF ~IsAuthenticated(session, sid) THEN 401 ELSE 200)
    /\ UNCHANGED <<storeVars, reqs, keyVars, userVars, favVars, logins>>

\* the game a client marks and unmarks in the session runs
AuthGameIds == {10}

NextAuth ==
    \/ \E g \in 1..MaxSignups, sid \in Sessions, account \in Accounts :
          RegisterArrive(g, sid, account[1], account[2], "pw", TRUE)
    \/ \E g \in Regs : RegisterEmailChecked(g)
    \/ \E g \in Regs : RegisterUsernameChecked(g)
    \/ \E g \in Regs : RegisterHashed(g)
    \/ \E l \in Logins, sid \in Sessions, email \in Emails, password \in LoginPasswords :
          LoginArrive(l, sid, email, password)
    \/ \E l \in Logins : LoginUserFound(l)
    \/ \E l \in Logins : LoginCompared(l)
    \/ \E sid \in Sessions : Logout(sid)
    \/ \E sid \in Sessions : GetAuthUser(sid)
    \/ \E sid \in Sessions, gid \in AuthGameIds : PostFavorite(sid, gid)
    \/ \E sid \in Sessions, gid \in AuthGameIds : DeleteFavorite(sid, gid)
    \/ \E sid \in Sessions : GetFavorites(sid)

SpecAuth == Init /\ [][NextAuth]_vars

----------------------------------------------------------------------------
(* Steps of the store, recognised by the call record they leave *)

\* this step is a getGameCache call
GetStep == ret'.op = "get" /\ ret' # ret
\* this step is a cacheGameData call on key k (every put takes a fresh id)
PutStepOn(k) == currentId' # currentId /\ ret'.key = k
\* this step is a clearExpiredCache run
SweepStep == ret'.op = "sweep" /\ ret' # ret

\* key k has no entry, or an entry whose expiry the clock has passed
Dead(k) == k \notin DOMAIN gameCache \/ gameCache[k].timestamp < now

----------------------------------------------------------------------------
(* Claims about the cache store, checked under SpecStore *)

\* C1: after cacheGameData(k, v, now+t), t >= 0, and with no later write to k,
\* getGameCache(k) returns the entry carrying v at every time strictly before
\* the expiry and returns absent at every time after the expiry has passed.
C1_PutThenGet ==
    (ret.op = "get" /\ ret.key \in DOMAIN lastPut) =>
        LET lp == lastPut[ret.key] IN
        /\ ret.at < lp.timestamp =>
              /\ ret.result # Undefined
              /\ ret.result.data = lp.data
              /\ ret.result.timestamp = lp.timestamp
        /\ ret.at > lp.timestamp => ret.result = Undefined

\* C1 witness: a read strictly before the expiry, at a later second than the
\* write, returns the payload of the second (overwriting) put.
C1_Witness ==
    /\ ret.op = "get"
    /\ ret.result # Undefined
    /\ ret.result.id = 2
    /\ ret.at > 0
    /\ ret.at < ret.result.timestamp
    /\ ret.result.data = lastPut[ret.key].data

\* C2 as stated: getGameCache at time now on an existing entry with
\* expiresAt <= now deletes it and returns absent; only entries with
\* expiresAt > now are returned.
C2_Original ==
    [][GetStep /\ ret'.key \in DOMAIN gameCache =>
          LET k == ret'.key IN
          IF gameCache[k].timestamp <= now
          THEN ret'.result = Undefined /\ k \notin DOMAIN gameCache'
          ELSE ret'.result = gameCache[k] /\ gameCache' = gameCache]_vars

\* C2 amended: getGameCache at time now on an existing entry with
\* expiresAt < now deletes it and returns absent; an entry with
\* expiresAt >= now (the boundary expiresAt = now included) is returned and
\* the map is left as it was.
C2_Amended ==
    [][GetStep /\ ret'.key \in DOMAIN gameCache =>
          LET k == ret'.key IN
          IF gameCache[k].timestamp < now
          THEN ret'.result = Undefined /\ k \notin DOMAIN gameCache'
          ELSE ret'.result = gameCache[k] /\ gameCache' = gameCache]_vars

\* C2 witness: a read in the very second of the expiry returned the entry.
C2_Witness ==
    /\ ret.op = "get"
    /\ ret.result # Undefined
    /\ ret.result.timestamp = ret.at
    /\ ret.key \in DOMAIN gameCache

\* C3 as stated: right after clearExpiredCache at time now the cache holds no
\* entry with expiresAt <= now, and every entry that had expiresAt > now is
\* still there, unchanged.
C3_Original ==
    [][SweepStep =>
          /\ \A k \in DOMAIN gameCache' : gameCache'[k].timestamp > now
          /\ \A k \in DOMAIN gameCache :
                gameCache[k].timestamp > now =>
                    k \in DOMAIN gameCache' /\ gameCache'[k] = gameCache[k]]_vars

\* C3 amended: right after clearExpiredCache at time now the cache holds no
\* entry with expiresAt < now, and every entry that had expiresAt >= now is
\* still there with the same key, payload, id and expiry.
C3_Amended ==
    [][SweepStep =>
          /\ \A k \in DOMAIN gameCache' : gameCache'[k].timestamp >= now
          /\ \A k \in DOMAIN gameCache :
                gameCache[k].timestamp >= now =>
                    k \in DOMAIN gameCache' /\ gameCache'[k] = gameCache[k]]_vars

\* C3 witness: a sweep has just run, it removed a written entry and kept one
\* whose expiry is the current second.
C3_Witness ==
    /\ ret.op = "sweep"
    /\ ret.at = now
    /\ \E k \in DOMAIN lastPut : k \notin DOMAIN gameCache /\ lastPut[k].timestamp < now
    /\ \E k \in DOMAIN gameCache : gameCache[k].timestamp = now

\* C4: once the entry of key k has expired, every getGameCache(k) with no
\* intervening cacheGameData(k, ...) returns absent and leaves k out of the
\* map; no step other than a put of k (not a get, a sweep or the clock) makes
\* k live again.
C4_ExpiryIdempotent ==
    [][\A k \in StoreKeys :
          (Dead(k) /\ ~PutStepOn(k)) =>
              /\ Dead(k)'
              /\ (GetStep /\ ret'.key = k) =>
                    ret'.result = Undefined /\ k \notin DOMAIN gameCache']_vars

\* C4 witness: a read of a key that was written and whose expiry has passed
\* returned absent, and the key is out of the map.
C4_Witness ==
    /\ ret.op = "get"
    /\ ret.result = Undefined
    /\ ret.key \in DOMAIN lastPut
    /\ lastPut[ret.key].timestamp < ret.at
    /\ ret.key \notin DOMAIN gameCache

----------------------------------------------------------------------------
(* Steps of the games requests *)

\* request r arrives in this step
ArriveStep(r) == reqs[r].pc = "idle" /\ reqs'[r].pc # "idle"
\* the upstream call of request r succeeds in this step
RespondStep(r) ==
    reqs[r].pc = "fetching" /\ reqs'[r].pc = "done" /\ reqs'[r].status = 200
\* the upstream call of request r fails in this step
FailStep(r) ==
    reqs[r].pc = "fetching" /\ reqs'[r].pc = "done" /\ reqs'[r].status # 200
\* requests a and b are the only ones received for key
OnlyRequestsFor(key, a, b) ==
    \A c \in Reqs \ {a, b} : reqs[c].pc = "idle" \/ reqs[c].key # key

\* the paths of the three endpoints
IsListingPath(path) == path = <<S_api, S_games>>
IsSearchPath(path) == path = <<S_api, S_games, S_search>>
IsDetailPath(path) == Len(path) = 3 /\ path[1] = S_api /\ path[2] = S_games /\ ~IsSearchPath(path)

----------------------------------------------------------------------------
(* Claims about the games handlers, checked under Spec *)

\* C5: a games request whose key has a live entry (one whose expiry is not
\* before now) is answered with the cached payload, with no upstream call
\* and no cache write; and of two sequential
\* identical listing requests on an empty cache, the second beginning after
\* the first completed and less than 3600 s after its write, only the first
\* fetches upstream and both carry the same payload.
C5_HitServesCache ==
    [][\A r \in Reqs : ArriveStep(r) =>
          LET key == reqs'[r].key IN
          /\ (key \in DOMAIN gameCache /\ gameCache[key].timestamp >= now) =>
                /\ reqs'[r].pc = "done"
                /\ reqs'[r].status = 200
                /\ reqs'[r].body = gameCache[key].data
                /\ ~reqs'[r].fetched
                /\ gameCache' = gameCache
                /\ currentId' = currentId
          /\ \A f \in Reqs \ {r} :
                ( /\ reqs[f].pc = "done"
                  /\ IsListingPath(reqs[f].path)
                  /\ reqs'[r].path = reqs[f].path
                  /\ reqs'[r].query = reqs[f].query
                  /\ reqs[f].fetched
                  /\ reqs[f].status = 200
                  /\ OnlyRequestsFor(reqs[f].key, f, r)
                  /\ now - lastPut[reqs[f].key].at < TTL_LISTING ) =>
                      /\ reqs'[r].pc = "done"
                      /\ ~reqs'[r].fetched
                      /\ reqs'[r].status = 200
                      /\ reqs'[r].body = reqs[f].body
                      /\ currentId' = currentId]_vars

\* C5 witness: two listing requests with the same parameters are answered,
\* the first after an upstream fetch and the second from the cache with the
\* same payload, later than the second of the write; one entry was written.
C5_Witness ==
    /\ reqs[1].pc = "done" /\ reqs[2].pc = "done"
    /\ IsListingPath(reqs[1].path) /\ reqs[2].path = reqs[1].path
    /\ reqs[2].query = reqs[1].query
    /\ reqs[1].fetched /\ reqs[1].status = 200
    /\ ~reqs[2].fetched /\ reqs[2].status = 200
    /\ reqs[2].body = reqs[1].body
    /\ currentId = 2
    /\ now > lastPut[reqs[1].key].at

\* C6 as stated: when the upstream fetch of a games request fails (and no
\* other request wrote meanwhile), the cache map is exactly as it was before
\* the request: the request's key holds what it held when the request arrived.
C6_Original ==
    [][\A r \in Reqs :
          (FailStep(r) /\ currentId = reqs[r].id0) =>
              EntryAt(gameCache', reqs[r].key) = reqs[r].pre]_vars

\* C6 amended: when the upstream fetch of a games request fails, the handler
\* answers 500 and the request has written no entry (no negative caching): the
\* failure leaves the map and the id counter as they are, and the only change
\* the request made is its arrival's lazy deletion of an expired entry under
\* its own key; unless another request wrote meanwhile the key is absent after
\* the failure, and a request that finds its key absent fetches upstream.
C6_Amended ==
    [][\A r \in Reqs :
          /\ FailStep(r) =>
                /\ reqs'[r].status = 500
                /\ gameCache' = gameCache
                /\ currentId' = currentId
                /\ currentId = reqs[r].id0 => reqs[r].key \notin DOMAIN gameCache'
          /\ ArriveStep(r) =>
                LET key == reqs'[r].key IN
                /\ currentId' = currentId
                /\ \/ gameCache' = gameCache
                   \/ /\ key \in DOMAIN gameCache
                      /\ gameCache[key].timestamp < now
                      /\ gameCache' = MapDelete(gameCache, key)
                /\ (reqs'[r].status # 400 /\ key \notin DOMAIN gameCache) =>
                      reqs'[r].pc = "fetching" /\ reqs'[r].fetched]_vars

\* C6 witness: a request was answered 500 after its arrival had found an
\* expired entry under its key; nothing was written since and the key is absent.
C6_Witness ==
    \E r \in Reqs :
        /\ reqs[r].pc = "done"
        /\ reqs[r].status = 500
        /\ reqs[r].pre # Undefined
        /\ reqs[r].id0 = currentId
        /\ reqs[r].key \notin DOMAIN gameCache

\* C7: every cache entry is written with the key and lifetime of the endpoint
\* the request was sent to: listing now + 3600; detail "/games/" + id with
\* now + 86400; search "/search/" + q with now + 1800.
C7_Original ==
    [][\A r \in Reqs : RespondStep(r) =>
          \A k \in DOMAIN gameCache' :
              gameCache'[k].id = currentId =>
                  LET path == reqs[r].path
                      query == reqs[r].query
                      item == gameCache'[k]
                  IN  /\ IsListingPath(path) => item.timestamp = now + TTL_LISTING
                      /\ IsDetailPath(path) =>
                            k = DetailKey(path[3]) /\ item.timestamp = now + TTL_DETAIL
                      /\ (IsSearchPath(path) /\ "query" \in DOMAIN query) =>
                            k = SearchKey(query["query"]) /\ item.timestamp = now + TTL_SEARCH]_vars

\* C8: a request GET /api/games/search with no query parameter is answered
\* 400, with no upstream call and no cache write.
C8_Original ==
    \A r \in Reqs :
        ( /\ reqs[r].pc # "idle"
          /\ IsSearchPath(reqs[r].path)
          /\ "query" \notin DOMAIN reqs[r].query ) =>
              /\ reqs[r].pc = "done"
              /\ reqs[r].status = 400
              /\ ~reqs[r].fetched

----------------------------------------------------------------------------
(* Claim about the listing cache key, checked under SpecKey *)

\* C9: the listing cache key is an injective function of the parameter set:
\* two requests with the same parameters, in any order, derive the same key,
\* and two requests that differ in a parameter (set against unset included)
\* derive different keys.
C9_KeyInjective ==
    (keyA = keyB) <=> (ParseQuery(rawA) = ParseQuery(rawB))

\* C9 witness: the first request sets ordering to a value that spells the
\* text of a following esrb_rating member, the second sets ordering and
\* esrb_rating apart; the keys differ.
C9_Witness ==
    /\ rawA = << <<"ordering", S_tricky>> >>
    /\ rawB = << <<"ordering", S_1>>, <<"esrb_rating", S_1>> >>
    /\ keyA # keyB

\* C9 witness of the other half: the same two parameters in the other order
\* derive the same key.
C9_WitnessOrder ==
    /\ Len(rawA) = 2
    /\ rawB = <<rawA[2], rawA[1]>>
    /\ rawB # rawA
    /\ keyA = keyB

----------------------------------------------------------------------------
(* Claim about registration, checked under SpecReg *)

\* C10: in every reachable state no two stored users share an email and no two
\* share a username, for any interleaving of concurrent registration requests
\* suspended at their awaits.
C10_Original ==
    \A a, b \in DOMAIN users :
        a # b => users[a].email # users[b].email /\ users[a].username # users[b].username

----------------------------------------------------------------------------
(* Claims about registration outcomes, checked under SpecReg *)

\* registration g is answered with status st in this step
RegDoneStep(g, st) ==
    regs[g].pc # "done" /\ regs'[g].pc = "done" /\ regs'[g].status = st

\* C11: a registration that is rejected (invalid input, email in use,
\* username in use) answers 400 and leaves the user store, the user-id counter
\* and the sessions unchanged; one that succeeds answers 201, adds exactly one
\* user and sets the requester's session userId to the new user's id.
C11_RegisterOutcome ==
    [][\A g \in Regs :
          /\ (regs[g].pc # "done" /\ regs'[g].pc = "done") =>
                regs'[g].status \in {400, 201}
          /\ RegDoneStep(g, 400) =>
                users' = users /\ userId' = userId /\ session' = session
          /\ RegDoneStep(g, 201) =>
                /\ \E id \in DOMAIN users' \ DOMAIN users :
                      /\ DOMAIN users' = DOMAIN users \cup {id}
                      /\ users'[id].id = id
                      /\ users'[id].email = regs[g].email
                      /\ users'[id].username = regs[g].username
                      /\ session'[regs[g].sid] = id
                /\ \A u \in DOMAIN users : users'[u] = users[u]
                /\ \A sid \in Sessions \ {regs[g].sid} : session'[sid] = session[sid]]_vars

\* C11 witness: one registration succeeded (201, one user, its session set)
\* and another, from another session, was rejected for a taken email; the
\* rejected requester's session has no userId.
C11_Witness ==
    \E g, h \in Regs :
        /\ regs[g].pc = "done" /\ regs[g].status = 201
        /\ regs[h].pc = "done" /\ regs[h].status = 400
        /\ regs[h].existing # Undefined
        /\ regs[h].email = regs[g].email
        /\ regs[h].sid # regs[g].sid
        /\ DOMAIN users = {1}
        /\ userId = 2
        /\ session[regs[g].sid] = 1
        /\ session[regs[h].sid] = 0

----------------------------------------------------------------------------
(* Steps of the favorites store, recognised by the call record they leave *)

\* this step is an addFavorite call (every add takes a fresh favorite id)
AddStep == favoriteId' # favoriteId
\* this step is a removeFavorite call
RemoveStep == fret'.op = "remove" /\ fret' # fret
\* this step is a getUserFavorites call
ListStep == fret'.op = "list" /\ fret' # fret

\* the gameIds of a list of Favorite records, in order
GameIdsOf(list) == [i \in 1..Len(list) |-> list[i].gameId]

\* how many records of a list have gameId gid
CountGame(list, gid) == Cardinality({i \in 1..Len(list) : list[i].gameId = gid})

\* the ids of all stored Favorite records
StoredFavoriteIds(favs) ==
    UNION {{favs[u][i].id : i \in 1..Len(favs[u])} : u \in DOMAIN favs}

----------------------------------------------------------------------------
(* Claims about the favorites store, checked under SpecFav *)

\* C12: in every state reachable by createUser, addFavorite and removeFavorite
\* calls with arbitrary userId and gameId, every existing user's favoriteGames
\* equals the sequence of gameIds of the Favorite records stored for that
\* user, in order.
C12_Original ==
    \A u \in DOMAIN users :
        users[u].favoriteGames = GameIdsOf(GetUserFavorites(favorites, u))

\* C13: favorites round trip.  For a user u with no favorite for game g,
\* addFavorite(u, g) leaves exactly one entry with gameId g in what
\* getUserFavorites(u) returns; removeFavorite(u, g) then returns true and
\* leaves no such entry; a removeFavorite(u, g) that finds no such entry
\* returns false.  Between these calls the entries for (u, g) change only by
\* an addFavorite or removeFavorite of (u, g), and getUserFavorites returns
\* the stored list.
C13_RoundTrip ==
    [][\A u \in FavUserIds, g \in GameIds :
          LET before == CountGame(GetUserFavorites(favorites, u), g)
              after == CountGame(GetUserFavorites(favorites', u), g)
              mine == fret'.userId = u /\ fret'.gameId = g
          IN  /\ (AddStep /\ mine /\ before = 0) => after = 1
              /\ (RemoveStep /\ mine /\ before = 1) => fret'.result = TRUE /\ after = 0
              /\ (RemoveStep /\ mine /\ before = 0) => fret'.result = FALSE /\ after = 0
              /\ (ListStep /\ fret'.userId = u) =>
                    /\ CountGame(fret'.result, g) = before
                    /\ after = before
              /\ ~((AddStep \/ RemoveStep) /\ mine) => after = before]_vars

\* C13 witness: after one addFavorite(u, g) in all, followed by a successful
\* removeFavorite(u, g), a second removeFavorite(u, g) has returned false; the
\* list of u is stored and empty.
C13_Witness ==
    /\ fret.op = "remove"
    /\ fret.result = FALSE
    /\ favoriteId = 2
    /\ fret.userId \in DOMAIN favorites
    /\ favorites[fret.userId] = <<>>
    /\ fret.userId \in DOMAIN users
    /\ users[fret.userId].favoriteGames = <<>>

\* C14 as stated: removeFavorite(userId, gameId), also on a list that holds
\* several records with that gameId, removes the first matching record (one
\* record) and returns true; with no matching record it returns false and
\* leaves the favorites and the user's favoriteGames unchanged.
C14_Original ==
    [][RemoveStep =>
          LET u == fret'.userId
              g == fret'.gameId
              list == GetUserFavorites(favorites, u)
          IN  IF CountGame(list, g) > 0
              THEN /\ fret'.result = TRUE
                   /\ Len(favorites'[u]) = Len(list) - 1
                   /\ favorites'[u] = FilterFavoritesFirst(list, g)
              ELSE /\ fret'.result = FALSE
                   /\ favorites' = favorites
                   /\ users' = users]_vars

\* C14 amended: removeFavorite(userId, gameId) removes every record of the
\* user's list with that gameId (all of them when there are several), keeps
\* the other records in order, removes every occurrence of gameId from the
\* user's favoriteGames and returns true; with no matching record it returns
\* false and leaves the favorites and the users unchanged.  Other users' lists
\* are never touched.
C14_Amended ==
    [][RemoveStep =>
          LET u == fret'.userId
              g == fret'.gameId
              list == GetUserFavorites(favorites, u)
          IN  /\ IF CountGame(list, g) > 0
                 THEN /\ fret'.result = TRUE
                      /\ CountGame(favorites'[u], g) = 0
                      /\ Len(favorites'[u]) = Len(list) - CountGame(list, g)
                      /\ favorites'[u] = SelectSeq(list, LAMBDA fav : fav.gameId # g)
                      /\ u \in DOMAIN users =>
                            \A i \in 1..Len(users'[u].favoriteGames) :
                                users'[u].favoriteGames[i] # g
                 ELSE /\ fret'.result = FALSE
                      /\ favorites' = favorites
                      /\ users' = users
              /\ \A o \in DOMAIN favorites \ {u} : favorites'[o] = favorites[o]
              /\ \A o \in DOMAIN users \ {u} : users'[o] = users[o]]_vars

\* C14 witness: a removeFavorite returned true after two records with the
\* same (userId, gameId) had been added; none of them is left.
C14_Witness ==
    /\ fret.op = "remove"
    /\ fret.result = TRUE
    /\ favoriteId = 3
    /\ favorites[fret.userId] = <<>>
    /\ \A u \in DOMAIN favorites : u = fret.userId

\* C15: addFavorite with a userId that references no user still stores the
\* Favorite record under that userId, with a fresh id, and changes no User
\* record; with an existing userId it appends the record to that user's list
\* and gameId to that user's favoriteGames; every other user's list and
\* record are unchanged.
C15_AddFrame ==
    [][AddStep =>
          LET u == fret'.userId
              g == fret'.gameId
              list == GetUserFavorites(favorites, u)
              fav == fret'.result
          IN  /\ favorites'[u] = Append(list, fav)
              /\ fav.userId = u /\ fav.gameId = g
              /\ fav.id \notin StoredFavoriteIds(favorites)
              /\ \A o \in DOMAIN favorites \ {u} : favorites'[o] = favorites[o]
              /\ DOMAIN favorites' = DOMAIN favorites \cup {u}
              /\ DOMAIN users' = DOMAIN users
              /\ \A o \in DOMAIN users \ {u} : users'[o] = users[o]
              /\ u \notin DOMAIN users => users' = users
              /\ u \in DOMAIN users =>
                    users' = [users EXCEPT ![u].favoriteGames = Append(@, g)]]_vars

\* C15 witness: an addFavorite for a userId that names no user has stored its
\* record, while an existing user holds a favorite of its own.
C15_Witness ==
    /\ fret.op = "add"
    /\ fret.userId \notin DOMAIN users
    /\ favorites[fret.userId] = <<fret.result>>
    /\ \E o \in DOMAIN users :
          /\ users[o].favoriteGames # <<>>
          /\ users[o].favoriteGames = GameIdsOf(favorites[o])

----------------------------------------------------------------------------
(* Claim about sessions, checked under SpecAuth *)

\* a logout or a request to a session-gated route is answered in this step
GateStep == gate' # gate
\* the routes registered with the isAuthenticated middleware
GatedRoutes == {"user", "addFavorite", "removeFavorite", "favorites"}
\* login l is answered with status st in this step
LoginDoneStep(l, st) ==
    logins[l].pc # "done" /\ logins'[l].pc = "done" /\ logins'[l].status = st
\* a registration or a login of session sid succeeds in this step
SignInStep(sid) ==
    \/ \E g \in Regs : RegDoneStep(g, 201) /\ regs'[g].sid = sid
    \/ \E l \in Logins : LoginDoneStep(l, 200) /\ logins'[l].sid = sid

\* C16: a request to a session-gated route (GET /api/auth/user, POST
\* /api/favorites, DELETE /api/favorites/:gameId, GET /api/favorites) from a
\* session without userId is answered 401 and changes nothing in the stores,
\* and one from a session with a userId is not answered 401; a session gets a
\* userId only by a successful register or login, which always sets it, keeps
\* one until the next logout, and has none after a logout.
C16_SessionGate ==
    [][/\ (GateStep /\ gate'.route \in GatedRoutes) =>
             IF session[gate'.sid] = 0
             THEN /\ gate'.status = 401
                  /\ UNCHANGED <<users, userId, favorites, favoriteId, session,
                                 gameCache, currentId>>
             ELSE gate'.status # 401
       /\ (GateStep /\ gate'.route = "logout") => session'[gate'.sid] = 0
       /\ \A sid \in Sessions :
             /\ (session[sid] = 0 /\ session'[sid] # 0) => SignInStep(sid)
             /\ SignInStep(sid) => session'[sid] \in DOMAIN users'
             /\ (session[sid] # 0 /\ session'[sid] = 0) =>
                   gate'.route = "logout" /\ gate'.sid = sid]_vars

\* C16 witness: a client registered, added a favorite while signed in, logged
\* out, and its next request to a gated route was answered 401.
C16_Witness ==
    /\ gate.route \in GatedRoutes
    /\ gate.status = 401
    /\ session[gate.sid] = 0
    /\ \E g \in Regs :
          /\ regs[g].pc = "done" /\ regs[g].status = 201
          /\ regs[g].sid = gate.sid
    /\ \E u \in DOMAIN users : users[u].favoriteGames # <<>>

----------------------------------------------------------------------------
(* Claims about concurrent games requests and staleness, checked under Spec *)

\* every stored entry is the one written by the latest put to its key
LastPutStored ==
    \A k \in DOMAIN gameCache :
        /\ k \in DOMAIN lastPut
        /\ gameCache[k].data = lastPut[k].data
        /\ gameCache[k].timestamp = lastPut[k].timestamp

\* C17: no single-flight (two concurrent requests for one cold key may both
\* miss, both fetch and both put: see the witness), and writes to a key are
\* never merged: a put replaces the entry of its key by exactly the payload
\* and the expiry of the request that makes it and touches no other key, no
\* other step adds or alters an entry, so what is stored under a key is the
\* payload and expiry of the request whose put executed last.
C17_LastWriteWins ==
    [][/\ \A r \in Reqs : RespondStep(r) =>
             LET k == reqs[r].key IN
             /\ k \in DOMAIN gameCache'
             /\ gameCache'[k] = CacheItem(currentId, k, reqs'[r].body,
                                          now + HandlerTTL(reqs[r].handler))
             /\ \A o \in DOMAIN gameCache' \ {k} :
                   o \in DOMAIN gameCache /\ gameCache'[o] = gameCache[o]
       /\ (~\E r \in Reqs : RespondStep(r)) =>
             \A k \in DOMAIN gameCache' :
                 k \in DOMAIN gameCache /\ gameCache'[k] = gameCache[k]
       /\ LastPutStored']_vars

\* C17 witness: two requests for the same key both missed the cold cache
\* within the same second, both fetched upstream and both put, with different
\* payloads; the entry is that of the second put.
C17_Witness ==
    /\ reqs[1].pc = "done" /\ reqs[2].pc = "done"
    /\ reqs[1].key = reqs[2].key
    /\ reqs[1].fetched /\ reqs[2].fetched
    /\ reqs[1].status = 200 /\ reqs[2].status = 200
    /\ reqs[1].body # reqs[2].body
    /\ now = 0
    /\ currentId = 3
    /\ gameCache[reqs[1].key].id = 2
    /\ gameCache[reqs[1].key].data = lastPut[reqs[1].key].data

\* request r is answered from the cache in this step
HitStep(r) ==
    ArriveStep(r) /\ reqs'[r].pc = "done" /\ reqs'[r].status = 200 /\ ~reqs'[r].fetched

\* C20: bounded staleness.  Whenever a games request is answered from the
\* cache at time t, the payload is the one stored by the most recent put for
\* exactly that key, and that put happened at a time p with
\* t - TTL <= p <= t, TTL being the lifetime of the handler that wrote it
\* (3600 listing, 86400 detail), for any interleaving of requests, lazy
\* expiry and sweeps.
C20_BoundedStaleness ==
    [][\A r \in Reqs : HitStep(r) =>
          LET k == reqs'[r].key
              TTL == HandlerTTL(reqs'[r].handler)
          IN  /\ k \in DOMAIN lastPut
              /\ reqs'[r].body = lastPut[k].data
              /\ now - TTL <= lastPut[k].at
              /\ lastPut[k].at <= now
              /\ lastPut[k].timestamp = lastPut[k].at + TTL
              /\ reqs'[r].handler = "listing" => TTL = 3600
              /\ reqs'[r].handler = "detail" => TTL = 86400]_vars

\* C20 witness: a listing request was answered from the cache exactly 3600 s
\* after the put, the oldest a served payload can be.
C20_Witness ==
    \E r \in Reqs :
        /\ reqs[r].pc = "done" /\ reqs[r].status = 200 /\ ~reqs[r].fetched
        /\ reqs[r].handler = "listing"
        /\ reqs[r].key \in DOMAIN lastPut
        /\ now = lastPut[reqs[r].key].at + TTL_LISTING
        /\ reqs[r].body = lastPut[reqs[r].key].data

----------------------------------------------------------------------------
(* Claim about the periodic sweep, checked under SpecSweep *)

\* the entry with id i is stored under key k
Stored(k, i) == k \in DOMAIN gameCache /\ gameCache[k].id = i

\* C18: under a fair sweep timer and an advancing clock every cache entry is
\* eventually no longer stored: unless it is overwritten first it is removed,
\* without any read being needed, and an entry is removed from the map only
\* once its expiry has passed.
C18_EventuallySwept ==
    /\ \A k \in SweepKeys, i \in 1..MaxReqs : Stored(k, i) ~> ~Stored(k, i)
    /\ [][\A k \in DOMAIN gameCache :
             k \notin DOMAIN gameCache' => gameCache[k].timestamp < now]_vars

\* C18 witness: an entry was written, no request read its key afterwards, the
\* clock passed its expiry and the entry is gone.
C18_Witness ==
    /\ currentId = 2
    /\ gameCache = EmptyMap
    /\ \E k \in DOMAIN lastPut : lastPut[k].timestamp < now
    /\ \A r \in Reqs : reqs[r].pc = "idle" \/ (reqs[r].pc = "done" /\ reqs[r].fetched)
    /\ reqs[2].pc = "idle"

----------------------------------------------------------------------------
(* Claim about user ids, checked under SpecReg *)

\* C19: user ids are unique and strictly increasing in creation order,
\* starting at 1, for any interleaving of createUser calls suspended in the
\* password hash: the step that completes a call takes the id from the
\* counter and inserts the user under it, the id is above every id handed out
\* before, and no existing user record is overwritten.
C19_UniqueIds ==
    [][\A g \in Regs : RegDoneStep(g, 201) =>
          LET id == session'[regs[g].sid] IN
          /\ id = userId
          /\ userId' = userId + 1
          /\ id = Cardinality(DOMAIN users) + 1
          /\ id \notin DOMAIN users
          /\ \A u \in DOMAIN users : u < id
          /\ DOMAIN users' = DOMAIN users \cup {id}
          /\ users'[id].id = id
          /\ \A u \in DOMAIN users : users'[u] = users[u]]_vars

\* C19 witness: two createUser calls for different accounts were suspended
\* in the hash together and the one called second completed first: it has
\* id 1, the other id 2, and both users are stored.
C19_Witness ==
    /\ regs[1].pc = "done" /\ regs[1].status = 201
    /\ regs[2].pc = "done" /\ regs[2].status = 201
    /\ regs[1].email # regs[2].email
    /\ regs[1].username # regs[2].username
    /\ DOMAIN users = {1, 2}
    /\ users[1].email = regs[2].email
    /\ users[2].email = regs[1].email
    /\ userId = 3

====
